---- MODULE Spec2Model ----
(***************************************************************************)
(* Model of src/src/file_compressor.py: DirectoryCompressor, the           *)
(* scan -> archive -> relocate pipeline over the tier-1 directories of an  *)
(* input root.                                                             *)
(*                                                                         *)
(* A name is a sequence of one-character strings, a path is a sequence of  *)
(* names relative to the input root (<<>> is the input root itself), and   *)
(* the filesystem is a function from the paths that exist to their nodes.  *)
(***************************************************************************)
EXTENDS Integers, Sequences, FiniteSets, TLC

\* ---------------------------------------------------------------- bounds
MaxClock == 1          \* the clock takes the seconds 0..MaxClock
MaxThreshold == 1      \* file_threshold ranges over 0..MaxThreshold
MaxThreads == 3        \* concurrent callers of _scan_directory

\* ------------------------------------------------------ program constants
BUFFER_SIZE == 1048576

\* ------------------------------------------------------------ input sets
\* the tier-1 directories an input root holds: none, one, two with unrelated
\* names, two whose names differ after the last dot only
DirSets == { {}, { <<"a">> }, { <<"a", ".", "b">> },
             { <<"a">>, <<"a", ".", "b">> },
             { <<"a", ".", "b">>, <<"a", ".", "c">> } }

\* the files a tier-1 directory may hold, by path relative to it: f (100 MB),
\* s/g (empty) and u (not readable)
FileF == << <<"f">> >>
FileG == << <<"s">>, <<"g">> >>
FileU == << <<"u">> >>
FileRels == { FileF, FileG, FileU }

FileAttr(r) ==
  CASE r = FileF -> [readable |-> TRUE,  size |-> 100 * BUFFER_SIZE]
    [] r = FileG -> [readable |-> TRUE,  size |-> 0]
    [] OTHER     -> [readable |-> FALSE, size |-> 100 * BUFFER_SIZE]
BackupsName == <<".", "b", "a", "c", "k", "u", "p", "s">>
NoPath == << <<"?">>, <<"?">>, <<"?">>, <<"?">> >>

\* ------------------------------------------------------------- sequences
Last(s) == s[Len(s)]

Front(s) == SubSeq(s, 1, Len(s) - 1)

IsPrefix(p, q) == Len(p) <= Len(q) /\ SubSeq(q, 1, Len(p)) = p

Range(s) == { s[i] : i \in 1..Len(s) }

Orderings(S) == { s \in [1..Cardinality(S) -> S] : Range(s) = S }

\* ------------------------------------------------------------ filesystem
Exists(f, p) == p \in DOMAIN f

IsDir(f, p) == p \in DOMAIN f /\ f[p].kind = "dir"

Under(f, p) == { q \in DOMAIN f : IsPrefix(p, q) }

Children(f, p) == { q \in DOMAIN f : Len(q) = Len(p) + 1 /\ IsPrefix(p, q) }

\* the subtree at p, keyed by the paths relative to p
Subtree(f, p) == [ r \in { SubSeq(q, Len(p) + 1, Len(q)) : q \in Under(f, p) } |-> f[p \o r] ]

Remove(f, p) == [ q \in DOMAIN f \ Under(f, p) |-> f[q] ]

AddNode(f, p, node) == [ q \in DOMAIN f \cup {p} |-> IF q = p THEN node ELSE f[q] ]

\* the tree at src re-keyed under dst
Rekey(f, src, dst) ==
  LET moved == { dst \o SubSeq(q, Len(src) + 1, Len(q)) : q \in Under(f, src) }
      kept  == DOMAIN f \ Under(f, src)
  IN [ q \in kept \cup moved |->
         IF q \in moved THEN f[src \o SubSeq(q, Len(dst) + 1, Len(q))] ELSE f[q] ]

DirNode == [kind |-> "dir", trav |-> TRUE]

\* ------------------------------------------------ library calls (POSIX)
\* os.rename: a missing source, a destination inside the source, a missing
\* destination parent, a destination that is a file or a non-empty directory
\* all raise; an empty destination directory is replaced.
OsRename(f, src, dst) ==
  IF \/ ~Exists(f, src)
     \/ IsPrefix(src, dst)
     \/ (Len(dst) > 1 /\ ~IsDir(f, Front(dst)))
     \/ (Exists(f, dst) /\ ~(IsDir(f, src) /\ IsDir(f, dst) /\ Children(f, dst) = {}))
  THEN [ok |-> FALSE, fs |-> f]
  ELSE [ok |-> TRUE, fs |-> Rekey(Remove(f, dst), src, dst)]

\* shutil.move: a destination that is a directory receives the source INSIDE
\* it, under the source's base name; that name already existing raises.
ShutilMove(f, src, dst) ==
  LET real_dst == IF IsDir(f, dst) THEN dst \o <<Last(src)>> ELSE dst
  IN IF IsDir(f, dst) /\ Exists(f, real_dst)
     THEN [ok |-> FALSE, fs |-> f]
     ELSE OsRename(f, src, real_dst)

\* Path.mkdir(exist_ok=True, parents=True)
Mkdir(f, p) ==
  IF IsDir(f, p) THEN [ok |-> TRUE, fs |-> f]
  ELSE IF Exists(f, p) THEN [ok |-> FALSE, fs |-> f]
  ELSE [ok |-> TRUE, fs |-> AddNode(f, p, DirNode)]

UnlinkIfExists_Skipped(f, p) == f

\* lines 163-164: Path.unlink guarded by Path.exists
UnlinkIfExists(f, p) == IF Exists(f, p) THEN Remove(f, p) ELSE f

Digit(n) == <<"0", "1", "2", "3", "4", "5", "6", "7", "8", "9">>[n + 1]

\* datetime.now().strftime("%Y%m%d_%H%M%S") for the second c after
\* 2026-11-02 12:00:00 (c < 60)
Strftime(c) ==
  <<"2", "0", "2", "6", "1", "1", "0", "2", "_", "1", "2", "0", "0">>
    \o <<Digit(c \div 10), Digit(c % 10)>>

RFind(name, ch) ==
  LET hits == { i \in 1..Len(name) : name[i] = ch }
  IN IF hits = {} THEN 0 ELSE CHOOSE i \in hits : \A j \in hits : j <= i

\* PurePath.suffix: the part of the name from its last dot on, unless that dot
\* is the first or the last character
Suffix(name) ==
  LET i == RFind(name, ".")
  IN IF 1 < i /\ i < Len(name) THEN SubSeq(name, i, Len(name)) ELSE <<>>

\* PurePath.with_suffix, on the last component of path p
WithSuffix(p, suffix) ==
  LET name == Last(p)
      stem == SubSeq(name, 1, Len(name) - Len(Suffix(name)))
  IN Front(p) \o <<stem \o suffix>>

\* PurePath.relative_to, with the caller's fallback to the bare file name
RelativeTo(p, base) ==
  IF IsPrefix(base, p) THEN SubSeq(p, Len(base) + 1, Len(p)) ELSE <<Last(p)>>

StartsWithDot(name) == Len(name) > 0 /\ name[1] = "."

\* ------------------------------------------------- DirectoryCompressor
input_dir == <<>>

backup_dir_NotHidden == input_dir \o <<Tail(BackupsName)>>

\* line 34: self.input_dir / '.backups'
backup_dir == input_dir \o <<BackupsName>>

ZipPath(directory, timestamp) ==
  Front(directory) \o <<Last(directory) \o <<"_">> \o timestamp \o <<".", "z", "i", "p">>>>

BackupPath_BareName(directory, timestamp) == backup_dir \o <<Last(directory)>>

\* line 174
BackupPath(directory, timestamp) ==
  backup_dir \o <<Last(directory) \o <<"_">> \o timestamp>>

TempBackupPath(bpath) == WithSuffix(bpath, <<".", "t", "m", "p">>)

\* os.walk(directory): the files reachable from directory through
\* traversable directories (errors of the walk are ignored, onerror=None)
Walkable(f, directory, q) ==
  \A k \in Len(directory)..(Len(q) - 1) :
     LET anc == SubSeq(q, 1, k) IN IsDir(f, anc) /\ f[anc].trav

WalkFiles(f, directory) ==
  { q \in Under(f, directory) : f[q].kind = "file" /\ Walkable(f, directory, q) }

ScanEntries_RelativeToDirectory(f, directory) ==
  { [source_path |-> q,
     archive_path |-> RelativeTo(q, directory),
     size |-> f[q].size] : q \in { x \in WalkFiles(f, directory) : f[x].readable } }

\* the entries a scan appends: files that exist and pass os.access(R_OK)
ScanEntries(f, directory) ==
  { [source_path |-> q,
     archive_path |-> RelativeTo(q, Front(directory)),
     size |-> f[q].size] : q \in { x \in WalkFiles(f, directory) : f[x].readable } }

SumSizes(files) ==
  LET RECURSIVE Go(_)
      Go(i) == IF i = 0 THEN 0 ELSE files[i].size + Go(i - 1)
  IN Go(Len(files))

\* --------------------------------------------------------------- state
VARIABLES
  fs,               \* the filesystem under the input root: path -> node
  root_state,       \* "ok", "missing" or "denied": the input root itself
  clock,            \* the current second
  side_files,       \* the failed_files_<timestamp>.log files written (cwd)
  file_threshold,   \* self.file_threshold
  file_cache,       \* self._file_cache: directory -> list of FileEntry
  pc,               \* position of process_directories
  todo,             \* entries of input_dir.iterdir() not yet visited
  t1_dir,           \* the loop variable
  success,          \* the local of process_directories
  result,           \* what process_directories returned ("none" before)
  zip_result,       \* what compress_directory returned for t1_dir
  backup_path,      \* locals of backup_directory (NoPath: not bound)
  temp_backup_path,
  backup_result,    \* what backup_directory returned last
  status,           \* per tier-1 directory, the branch it was logged in
  fs0,              \* the filesystem when the run started
  io_failed,        \* directories for which a file or filesystem call failed
  env_fault,        \* those of them where the environment made the call fail
  cache_lock,       \* self._cache_lock: the threads that hold it (none or one)
  threads,          \* per caller of _scan_directory: position, argument, locals
  walks,            \* per directory, the os.walk traversals that ran to the end
  cli,              \* the command line: program, threshold argument, exit code
  run               \* which run of the pipeline this is, and how the first ended

vars == <<fs, root_state, clock, side_files, file_threshold, file_cache, pc, todo,
          t1_dir, success, result, zip_result, backup_path, temp_backup_path,
          backup_result, status, fs0, io_failed, env_fault, cache_lock, threads,
          walks, cli, run>>

\* the state of concurrent callers of _scan_directory; process_directories
\* itself runs on one thread and takes the lock inside each scan
ScanFrame == <<cache_lock, threads, walks>>

\* no command line: the class is used directly
NoCli == [program |-> "none", arg |-> [kind |-> "absent", value |-> 0], exit_code |-> 0]

Threads == 1..MaxThreads

Idle == [pc |-> "idle", directory |-> NoPath, files |-> <<>>, outcome |-> "none",
         returned |-> <<>>]

NoZip == [ok |-> FALSE, zip_path |-> NoPath]

NoBackup == [ok |-> FALSE, backup_path |-> NoPath]

NoStatus == [ d \in {} |-> "Pending" ]

\* the first run of the pipeline on the input root
FirstRun == [number |-> 1, status |-> NoStatus, result |-> "none"]

\* ---------------------------------------------------------------- Init
\* a lone tier-1 directory holds any of the files; two directories hold
\* readable files only, and what an earlier run left is found beside a lone
\* directory only
DirContents(dirs) ==
  IF Cardinality(dirs) > 1 THEN SUBSET {FileF, FileG} ELSE SUBSET FileRels

PriorTimestamp == Strftime(0)

\* the tree of one tier-1 directory n with the files of content c
DirTree(n, c, trav) ==
  LET files == { <<n>> \o r : r \in c }
      subs  == UNION { { SubSeq(q, 1, k) : k \in 2..(Len(q) - 1) } : q \in files }
  IN [ q \in {<<n>>} \cup subs \cup files |->
        IF q \in files
        THEN [kind |-> "file", readable |-> FileAttr(Tail(q)).readable,
              size |-> FileAttr(Tail(q)).size, data |-> q]
        ELSE [kind |-> "dir", trav |-> IF q = <<n>> THEN trav ELSE TRUE] ]

\* what an earlier run at second 0 left under the backup root for directory n
PriorTree(n) ==
  LET e == BackupPath(<<n>>, PriorTimestamp)
      o == e \o << <<"o">> >>
  IN [ q \in {backup_dir, e, o} |->
        IF q = o THEN [kind |-> "file", readable |-> TRUE, size |-> 0, data |-> q]
        ELSE DirNode ]

\* the archive that earlier run left beside directory n
PriorArchive(n) ==
  LET z == ZipPath(<<n>>, PriorTimestamp)
      o == BackupPath(<<n>>, PriorTimestamp) \o << <<"o">> >>
  IN [ q \in {z} |->
        [kind |-> "zip", entries |-> { [archive_path |-> <<n, <<"o">>>>, data |-> o] },
         closed |-> TRUE] ]

Merge(f, g) == [ q \in DOMAIN f \cup DOMAIN g |-> IF q \in DOMAIN g THEN g[q] ELSE f[q] ]

EmptyFs == [ q \in {} |-> DirNode ]

RECURSIVE MergeAll(_, _)
MergeAll(S, T) ==
  IF S = {} THEN EmptyFs
  ELSE LET n == CHOOSE x \in S : TRUE IN Merge(T[n], MergeAll(S \ {n}, T))

InitRun ==
  \E dirs \in DirSets :
  \E content \in [dirs -> DirContents(dirs)] :
  \E trav \in [dirs -> BOOLEAN] :
  \E prior \in {<<>>} \cup { <<n>> : n \in dirs } :
  \E rs \in {"ok", "missing", "denied"} :
  \E th \in 0..MaxThreshold :
    /\ rs = "missing" => dirs = {}
    /\ rs = "denied" => prior = <<>> /\ th = 0
    /\ prior # <<>> => Cardinality(dirs) = 1
    /\ \A n \in dirs : ~trav[n] => content[n] = {FileF} /\ Cardinality(dirs) = 1
    /\ LET trees == [ n \in dirs |-> DirTree(n, content[n], trav[n]) ]
           base  == MergeAll(dirs, trees)
       IN fs = IF prior = <<>> THEN base
               ELSE Merge(Merge(base, PriorTree(prior[1])), PriorArchive(prior[1]))
    /\ root_state = rs
    /\ clock = 0
    /\ side_files = {}
    /\ file_threshold = th
    /\ file_cache = [ d \in {} |-> <<>> ]
    /\ todo = {}
    /\ t1_dir = NoPath
    /\ success = TRUE
    /\ result = "none"
    /\ zip_result = NoZip
    /\ backup_path = NoPath
    /\ temp_backup_path = NoPath
    /\ backup_result = NoBackup
    /\ status = [ d \in {} |-> "Pending" ]
    /\ fs0 = fs
    /\ io_failed = {}
    /\ env_fault = {}
    /\ cache_lock = {}
    /\ threads = [ t \in Threads |-> Idle ]
    /\ walks = [ d \in {} |-> 0 ]
    /\ run = FirstRun

\* the state after DirectoryCompressor(input_dir, file_threshold)
Init == InitRun /\ pc = "start" /\ cli = NoCli

\* ------------------------------------------------------ _scan_directory
\* the lists a call may return: the cached list, or the entries of a walk in
\* the order the walk happens to yield them
\* os.walk is top-down: the files of a directory come before the files of
\* the directories below it
TopDown(files) ==
  \A i, j \in 1..Len(files) :
     LET di == Front(files[i].source_path)
         dj == Front(files[j].source_path)
     IN (di # dj /\ IsPrefix(di, dj)) => i < j

\* lines 82-99: the lists the loop over os.walk may build
Walk(f, directory) ==
  { files \in Orderings(ScanEntries(f, directory)) : TopDown(files) }

ScanDirectory_AlwaysWalks(cache, f, directory) == Walk(f, directory)

\* lines 79-80, 82-102: the cached list if there is one, else a walk
ScanDirectory(cache, f, directory) ==
  IF directory \in DOMAIN cache THEN {cache[directory]} ELSE Walk(f, directory)

CachePut(cache, directory, files) ==
  [ d \in DOMAIN cache \cup {directory} |-> IF d = directory THEN files ELSE cache[d] ]

\* --------------------------------------------------- compress_directory
EntryOutcomes == {"ok", "open_fail"}

\* the loop over the cached list: per entry the source is opened and copied
\* into the archive; any exception of the body, the progress computation
\* included, appends the source path to failed_files
RECURSIVE WriteEntries(_, _, _, _, _, _)
WriteEntries(f, files, outcome, total_size, i, acc) ==
  IF i > Len(files) THEN acc
  ELSE
    LET e == files[i]
        o == IF Exists(f, e.source_path) THEN outcome[i] ELSE "open_fail"
        entry == [archive_path |-> e.archive_path, data |-> f[e.source_path].data]
        processed == acc.processed_size + e.size
        zerodiv == processed % (100 * BUFFER_SIZE) = 0 /\ total_size = 0
    IN WriteEntries(f, files, outcome, total_size, i + 1,
         CASE o = "open_fail" ->
                [acc EXCEPT !.failed_files = Append(@, e.source_path)]
           [] OTHER ->
                [acc EXCEPT !.entries = @ \cup {entry},
                            !.processed_size = processed,
                            !.failed_files = IF zerodiv THEN Append(@, e.source_path) ELSE @])

SideFile_NeverWritten(timestamp, failed_files) == {}

\* lines 155-158: the side file, written only when some entry failed
SideFile(timestamp, failed_files) ==
  IF failed_files # <<>> THEN { [timestamp |-> timestamp, lines |-> failed_files] } ELSE {}

\* open(name, 'w'): a side file of the same name is replaced
WriteSideFile(files, side) ==
  { sf \in files : \A n \in side : sf.timestamp # n.timestamp } \cup side

\* the whole call, for one choice of which steps fail
CompressDirectory(f, files, directory, timestamp, open_ok, outcome, close_ok, log_ok) ==
  LET zip_path == ZipPath(directory, timestamp)
      w == WriteEntries(f, files, outcome, SumSizes(files), 1,
                        [entries |-> {}, failed_files |-> <<>>, processed_size |-> 0])
      opened == AddNode(Remove(f, zip_path), zip_path,
                        [kind |-> "zip", entries |-> {}, closed |-> FALSE])
      closed == AddNode(opened, zip_path,
                        [kind |-> "zip", entries |-> w.entries, closed |-> TRUE])
      failure(g) == [ok |-> FALSE, zip_path |-> NoPath, fs |-> UnlinkIfExists(g, zip_path),
                     side |-> {}, failed_files |-> <<>>, io_failed |-> TRUE]
  IN IF ~open_ok THEN failure(f)
     ELSE IF ~close_ok THEN failure(opened)
     ELSE IF w.failed_files # <<>> /\ ~log_ok THEN failure(closed)
     ELSE [ok |-> TRUE, zip_path |-> zip_path, fs |-> closed,
           side |-> SideFile(timestamp, w.failed_files),
           failed_files |-> w.failed_files,
           io_failed |-> \E i \in 1..Len(files) : outcome[i] = "open_fail"]

\* ------------------------------------------------- process_directories
SetStatus(d, v) == [ x \in DOMAIN status \cup {d} |-> IF x = d THEN v ELSE status[x] ]

RootUsable_ExistsOnly(rs) == rs # "missing"

\* lines 207-211: the input root exists and passes os.access(R_OK | W_OK)
RootUsable(rs) == rs = "ok"

\* lines 206-213: the checks of the input root and the listing of its children
ProcessStart ==
  /\ pc = "start"
  /\ IF RootUsable(root_state)
     THEN /\ todo' = Children(fs, input_dir)
          /\ pc' = "loop"
          /\ result' = result
     ELSE /\ pc' = "done"
          /\ result' = "False"
          /\ todo' = todo
  /\ UNCHANGED <<fs, root_state, clock, side_files, file_threshold, file_cache, t1_dir,
                 success, zip_result, backup_path, temp_backup_path, backup_result,
                 status, fs0, io_failed, env_fault>>
  /\ UNCHANGED ScanFrame
  /\ UNCHANGED <<cli, run>>

Skips_NonDirectoriesOnly(f, e) == ~IsDir(f, e)

\* line 214: not t1_dir.is_dir() or t1_dir.name.startswith('.')
Skips(f, e) == ~IsDir(f, e) \/ StartsWithDot(Last(e))

Advance_Revisits(entries, e) == entries

\* line 213: the iterator of iterdir() yields each listed entry once
Advance(entries, e) == entries \ {e}

\* lines 213-215: the next child; non-directories and dot names are passed over
NextEntry ==
  /\ pc = "loop"
  /\ \E e \in todo :
       /\ todo' = Advance(todo, e)
       /\ IF Skips(fs, e)
          THEN UNCHANGED <<pc, t1_dir>>
          ELSE pc' = "count" /\ t1_dir' = e
  /\ UNCHANGED <<fs, root_state, clock, side_files, file_threshold, file_cache,
                 success, result, zip_result, backup_path, temp_backup_path,
                 backup_result, status, fs0, io_failed, env_fault>>
  /\ UNCHANGED ScanFrame
  /\ UNCHANGED <<cli, run>>

ReturnValue_AlwaysTrue(s) == "True"

\* line 253: return success
ReturnValue(s) == IF s THEN "True" ELSE "False"

ProcessReturn_OnFailure ==
  /\ pc = "loop"
  /\ todo = {} \/ ~success
  /\ pc' = "done"
  /\ result' = ReturnValue(success)
  /\ UNCHANGED <<fs, root_state, clock, side_files, file_threshold, file_cache, todo,
                 t1_dir, success, zip_result, backup_path, temp_backup_path,
                 backup_result, status, fs0, io_failed, env_fault>>
  /\ UNCHANGED ScanFrame
  /\ UNCHANGED <<cli, run>>

\* lines 250-253: the loop is exhausted
ProcessReturn ==
  /\ pc = "loop"
  /\ todo = {}
  /\ pc' = "done"
  /\ result' = ReturnValue(success)
  /\ UNCHANGED <<fs, root_state, clock, side_files, file_threshold, file_cache, todo,
                 t1_dir, success, zip_result, backup_path, temp_backup_path,
                 backup_result, status, fs0, io_failed, env_fault>>
  /\ UNCHANGED ScanFrame
  /\ UNCHANGED <<cli, run>>

Triggered_AtThreshold(file_count, threshold) == file_count >= threshold

\* line 227: file_count > self.file_threshold
Triggered(file_count, threshold) == file_count > threshold

\* line 115: count_files returns the length and the summed sizes of the list
CountFilesResult(files) == [file_count |-> Len(files), dir_size |-> SumSizes(files)]

\* lines 219-227, 243-244: count_files and the threshold decision
CountFiles ==
  /\ pc = "count"
  /\ \E files \in ScanDirectory(file_cache, fs, t1_dir) :
       /\ file_cache' = CachePut(file_cache, t1_dir, files)
       /\ IF Triggered(CountFilesResult(files).file_count, file_threshold)
          THEN pc' = "compress" /\ status' = SetStatus(t1_dir, "Compressing")
          ELSE pc' = "loop" /\ status' = SetStatus(t1_dir, "Skipped")
  /\ UNCHANGED <<fs, root_state, clock, side_files, file_threshold, todo, t1_dir,
                 success, result, zip_result, backup_path, temp_backup_path,
                 backup_result, fs0, io_failed, env_fault>>
  /\ UNCHANGED ScanFrame
  /\ UNCHANGED <<cli, run>>

CompressSucceeded_Always(res) == TRUE

CompressSucceeded_Inverted(res) == ~res.ok

\* line 231: compress_success and zip_path
CompressSucceeded(res) == res.ok /\ res.zip_path # NoPath

\* lines 229-232, 240-242: compress_directory and the branch on its result
Compress ==
  /\ pc = "compress"
  /\ \E files \in ScanDirectory(file_cache, fs, t1_dir) :
     \E open_ok, close_ok, log_ok \in BOOLEAN :
     \E outcome \in [1..Len(files) -> EntryOutcomes] :
       LET r == CompressDirectory(fs, files, t1_dir, Strftime(clock),
                                  open_ok, outcome, close_ok, log_ok)
       IN /\ fs' = r.fs
          /\ side_files' = WriteSideFile(side_files, r.side)
          /\ file_cache' = CachePut(file_cache, t1_dir, files)
          /\ zip_result' = [ok |-> r.ok, zip_path |-> r.zip_path]
          /\ io_failed' = IF r.io_failed THEN io_failed \cup {t1_dir} ELSE io_failed
          /\ env_fault' = IF r.io_failed THEN env_fault \cup {t1_dir} ELSE env_fault
          /\ status' = SetStatus(t1_dir, IF r.ok THEN "Compressed" ELSE "CompressFailed")
          /\ IF CompressSucceeded(zip_result')
             THEN pc' = "b_mkdir" /\ success' = success
             ELSE pc' = "loop" /\ success' = FALSE
  /\ UNCHANGED <<root_state, clock, file_threshold, todo, t1_dir, result,
                 backup_path, temp_backup_path, backup_result, fs0>>
  /\ UNCHANGED ScanFrame
  /\ UNCHANGED <<cli, run>>

\* ----------------------------------------------------- backup_directory
BackupFrame == <<root_state, clock, side_files, file_threshold, file_cache, todo,
                 t1_dir, result, zip_result, fs0>>

\* lines 233, 172-174: the call, the creation of the backup root, the names
BackupMkdir ==
  /\ pc = "b_mkdir"
  /\ status' = SetStatus(t1_dir, "BackingUp")
  /\ \E io_ok \in BOOLEAN :
       LET m == Mkdir(fs, backup_dir)
       IN IF io_ok /\ m.ok
          THEN /\ fs' = m.fs
               /\ backup_path' = BackupPath(t1_dir, Strftime(clock))
               /\ pc' = "b_access"
               /\ UNCHANGED <<io_failed, env_fault>>
          ELSE /\ pc' = "b_except"
               /\ io_failed' = io_failed \cup {t1_dir}
               /\ env_fault' = IF io_ok THEN env_fault ELSE env_fault \cup {t1_dir}
               /\ UNCHANGED <<fs, backup_path>>
  /\ UNCHANGED <<temp_backup_path, backup_result, success>>
  /\ UNCHANGED BackupFrame
  /\ UNCHANGED ScanFrame
  /\ UNCHANGED <<cli, run>>

\* lines 177-181: the write-access check and the temporary name
BackupAccess ==
  /\ pc = "b_access"
  /\ \E access_ok \in BOOLEAN :
       IF access_ok
       THEN /\ temp_backup_path' = TempBackupPath(backup_path)
            /\ pc' = "b_move"
            /\ UNCHANGED <<io_failed, env_fault>>
       ELSE /\ pc' = "b_except"
            /\ io_failed' = io_failed \cup {t1_dir}
            /\ env_fault' = env_fault \cup {t1_dir}
            /\ temp_backup_path' = temp_backup_path
  /\ UNCHANGED <<fs, backup_path, backup_result, success, status>>
  /\ UNCHANGED BackupFrame
  /\ UNCHANGED ScanFrame
  /\ UNCHANGED <<cli, run>>

\* line 184: the move to the temporary name
BackupMove ==
  /\ pc = "b_move"
  /\ \E io_ok \in BOOLEAN :
       LET m == ShutilMove(fs, t1_dir, temp_backup_path)
       IN IF io_ok /\ m.ok
          THEN /\ fs' = m.fs
               /\ pc' = "b_rename"
               /\ UNCHANGED <<io_failed, env_fault>>
          ELSE /\ fs' = fs
               /\ pc' = "b_except"
               /\ io_failed' = io_failed \cup {t1_dir}
               /\ env_fault' = IF io_ok THEN env_fault ELSE env_fault \cup {t1_dir}
  /\ UNCHANGED <<backup_path, temp_backup_path, backup_result, success, status>>
  /\ UNCHANGED BackupFrame
  /\ UNCHANGED ScanFrame
  /\ UNCHANGED <<cli, run>>

\* lines 185-187, 235-236: the rename to the final name and the return of success
BackupRename ==
  /\ pc = "b_rename"
  /\ \E io_ok \in BOOLEAN :
       LET m == OsRename(fs, temp_backup_path, backup_path)
       IN IF io_ok /\ m.ok
          THEN /\ fs' = m.fs
               /\ pc' = "loop"
               /\ backup_result' = [ok |-> TRUE, backup_path |-> backup_path]
               /\ status' = SetStatus(t1_dir, "BackedUp")
               /\ backup_path' = NoPath
               /\ temp_backup_path' = NoPath
               /\ UNCHANGED <<io_failed, env_fault>>
          ELSE /\ pc' = "b_except"
               /\ io_failed' = io_failed \cup {t1_dir}
               /\ env_fault' = IF io_ok THEN env_fault ELSE env_fault \cup {t1_dir}
               /\ UNCHANGED <<fs, backup_result, status, backup_path, temp_backup_path>>
  /\ UNCHANGED success
  /\ UNCHANGED BackupFrame
  /\ UNCHANGED ScanFrame
  /\ UNCHANGED <<cli, run>>

\* lines 188-196, 237-239: the handler restores the temporary entry if it is
\* bound and exists, and the call returns failure
BackupExcept ==
  /\ pc = "b_except"
  /\ IF temp_backup_path # NoPath /\ Exists(fs, temp_backup_path)
     THEN \E io_ok \in BOOLEAN :
            LET m == ShutilMove(fs, temp_backup_path, t1_dir)
            IN fs' = IF io_ok /\ m.ok THEN m.fs ELSE fs
     ELSE fs' = fs
  /\ pc' = "loop"
  /\ backup_result' = NoBackup
  /\ success' = FALSE
  /\ status' = SetStatus(t1_dir, "BackupFailed")
  /\ backup_path' = NoPath
  /\ temp_backup_path' = NoPath
  /\ UNCHANGED <<io_failed, env_fault>>
  /\ UNCHANGED BackupFrame
  /\ UNCHANGED ScanFrame
  /\ UNCHANGED <<cli, run>>

\* a second passes; the clock is read when compress_directory starts and after
\* the backup root is created, so time passing elsewhere is not observable
Tick ==
  /\ pc \in {"compress", "b_mkdir"}
  /\ clock < MaxClock
  /\ clock' = clock + 1
  /\ UNCHANGED <<fs, root_state, side_files, file_threshold, file_cache, pc, todo,
                 t1_dir, success, result, zip_result, backup_path, temp_backup_path,
                 backup_result, status, fs0, io_failed, env_fault>>
  /\ UNCHANGED ScanFrame
  /\ UNCHANGED <<cli, run>>

Next ==
  \/ ProcessStart
  \/ NextEntry
  \/ ProcessReturn
  \/ CountFiles
  \/ Compress
  \/ BackupMkdir
  \/ BackupAccess
  \/ BackupMove
  \/ BackupRename
  \/ BackupExcept
  \/ Tick

Spec == Init /\ [][Next]_vars

\* ------------------------------------- concurrent callers of the scan
\* everything process_directories owns, but the cache
MainFrame == <<fs, root_state, clock, side_files, file_threshold, pc, todo, t1_dir,
               success, result, zip_result, backup_path, temp_backup_path,
               backup_result, status, fs0, io_failed, env_fault, cli, run>>

WithExit_Held(lock, t) == lock

\* line 78: leaving the with block, by return or by exception, releases the lock
WithExit(lock, t) == lock \ {t}

\* a thread calls _scan_directory(directory)
ScanCall(t) ==
  /\ threads[t].pc = "idle"
  /\ \E d \in { x \in Children(fs, input_dir) : ~Skips(fs, x) } :
       threads' = [threads EXCEPT ![t] = [Idle EXCEPT !.pc = "acquire", !.directory = d]]
  /\ UNCHANGED <<cache_lock, walks, file_cache>>
  /\ UNCHANGED MainFrame

\* line 78: with self._cache_lock blocks until the lock is free
ScanAcquire(t) ==
  /\ threads[t].pc = "acquire"
  /\ cache_lock = {}
  /\ cache_lock' = {t}
  /\ threads' = [threads EXCEPT ![t].pc = "check"]
  /\ UNCHANGED <<walks, file_cache>>
  /\ UNCHANGED MainFrame

\* lines 79-82: a cached list is returned as it is
ScanCheck(t) ==
  /\ threads[t].pc = "check"
  /\ IF threads[t].directory \in DOMAIN file_cache
     THEN /\ threads' = [threads EXCEPT ![t].pc = "done", ![t].outcome = "list",
                                        ![t].returned = file_cache[threads[t].directory]]
          /\ cache_lock' = WithExit(cache_lock, t)
     ELSE /\ threads' = [threads EXCEPT ![t].pc = "walk", ![t].files = <<>>]
          /\ cache_lock' = cache_lock
  /\ UNCHANGED <<walks, file_cache>>
  /\ UNCHANGED MainFrame

\* lines 84-99: the traversal runs to its end
ScanWalk(t) ==
  /\ threads[t].pc = "walk"
  /\ \E files \in Walk(fs, threads[t].directory) :
       threads' = [threads EXCEPT ![t].pc = "store", ![t].files = files]
  /\ LET d == threads[t].directory
     IN walks' = [ x \in DOMAIN walks \cup {d} |->
                   IF x = d THEN (IF d \in DOMAIN walks THEN walks[d] ELSE 0) + 1
                   ELSE walks[x] ]
  /\ UNCHANGED <<cache_lock, file_cache>>
  /\ UNCHANGED MainFrame

\* an exception escapes the loop (one raised inside the handler of line 99,
\* or by the construction of a path)
ScanRaise(t) ==
  /\ threads[t].pc = "walk"
  /\ threads' = [threads EXCEPT ![t].pc = "except"]
  /\ UNCHANGED <<cache_lock, walks, file_cache>>
  /\ UNCHANGED MainFrame

\* lines 101-102: the list is cached and returned
ScanStore(t) ==
  /\ threads[t].pc = "store"
  /\ file_cache' = CachePut(file_cache, threads[t].directory, threads[t].files)
  /\ threads' = [threads EXCEPT ![t].pc = "done", ![t].outcome = "list",
                                ![t].returned = threads[t].files]
  /\ cache_lock' = WithExit(cache_lock, t)
  /\ UNCHANGED walks
  /\ UNCHANGED MainFrame

\* lines 103-105: the error is logged and raised again
ScanExcept(t) ==
  /\ threads[t].pc = "except"
  /\ threads' = [threads EXCEPT ![t].pc = "done", ![t].outcome = "error"]
  /\ cache_lock' = WithExit(cache_lock, t)
  /\ UNCHANGED <<walks, file_cache>>
  /\ UNCHANGED MainFrame

ScanStep(t) ==
  ScanAcquire(t) \/ ScanCheck(t) \/ ScanWalk(t) \/ ScanStore(t) \/ ScanExcept(t)

\* roots without a backup root; the names of the directories play no part in
\* a scan, so the roots holding a directory named a are enough
InitScan ==
  /\ Init
  /\ root_state = "ok"
  /\ file_threshold = 0
  /\ ~Exists(fs, backup_dir)
  /\ Exists(fs, << <<"a">> >>)

NextScan ==
  \E t \in Threads :
    \/ ScanCall(t)
    \/ ScanAcquire(t)
    \/ ScanCheck(t)
    \/ ScanWalk(t)
    \/ ScanRaise(t)
    \/ ScanStore(t)
    \/ ScanExcept(t)

\* every thread that is in a call gets to run
SpecScan == InitScan /\ [][NextScan]_vars /\ \A t \in Threads : WF_vars(ScanStep(t))

\* ------------------------------------------------------ the command line
DEFAULT_THRESHOLD == 3000

\* the threshold argument: absent, not an integer, or an integer
ArgThresholds ==
  { [kind |-> "absent", value |-> 0], [kind |-> "text", value |-> 0] }
    \cup { [kind |-> "int", value |-> n] : n \in -1..MaxThreshold }

Threshold(arg) == IF arg.kind = "absent" THEN DEFAULT_THRESHOLD ELSE arg.value

CliFrame == <<fs, root_state, clock, side_files, file_cache, todo, t1_dir, success,
              result, zip_result, backup_path, temp_backup_path, backup_result,
              status, fs0, io_failed, env_fault, run>>

\* file_compressor.py, main: int() and the test of line 267 raise ValueError
FileCompressorMain ==
  /\ pc = "main"
  /\ cli.program = "file_compressor"
  /\ IF cli.arg.kind # "text" /\ Threshold(cli.arg) > 0
     THEN /\ file_threshold' = Threshold(cli.arg)
          /\ pc' = "start"
          /\ cli' = cli
     ELSE /\ file_threshold' = file_threshold
          /\ pc' = "exited"
          /\ cli' = [cli EXCEPT !.exit_code = 1]
  /\ UNCHANGED CliFrame
  /\ UNCHANGED ScanFrame

\* storage_optimiser.py: line 7 imports create_test_directory from
\* create_test_directories, which defines no such name; the ImportError ends
\* the interpreter with code 1 before main (lines 36-55) is reached
StorageOptimiserMain ==
  /\ pc = "main"
  /\ cli.program = "storage_optimiser"
  /\ file_threshold' = file_threshold
  /\ pc' = "exited"
  /\ cli' = [cli EXCEPT !.exit_code = 1]
  /\ UNCHANGED CliFrame
  /\ UNCHANGED ScanFrame

\* sys.exit(0 if success else 1)
CliExit ==
  /\ pc = "done"
  /\ cli.program # "none"
  /\ pc' = "exited"
  /\ cli' = [cli EXCEPT !.exit_code = IF result = "True" THEN 0 ELSE 1]
  /\ UNCHANGED file_threshold
  /\ UNCHANGED CliFrame
  /\ UNCHANGED ScanFrame

\* one tier-1 directory at most, no earlier backup entry
InitCli ==
  /\ InitRun
  /\ pc = "main"
  /\ file_threshold = 0
  /\ Cardinality(Children(fs, input_dir)) <= 1
  /\ \E program \in {"file_compressor", "storage_optimiser"} :
     \E arg \in ArgThresholds :
       cli = [program |-> program, arg |-> arg, exit_code |-> 0]

NextCli ==
  \/ FileCompressorMain
  \/ StorageOptimiserMain
  \/ Next
  \/ CliExit

SpecCli == InitCli /\ [][NextCli]_vars

\* ------------------------- a run beside other users of the filesystem
\* a file another process creates in a tier-1 directory
FileN == << <<"n">> >>

\* between count_files (line 219) and compress_directory (line 229) another
\* process removes a file of t1_dir or creates one in it
ExternalChange ==
  /\ pc = "compress"
  /\ \/ \E q \in { x \in Under(fs, t1_dir) : fs[x].kind = "file" } : fs' = Remove(fs, q)
     \/ /\ ~Exists(fs, t1_dir \o FileN)
        /\ fs' = AddNode(fs, t1_dir \o FileN,
                         [kind |-> "file", readable |-> TRUE, size |-> 1,
                          data |-> t1_dir \o FileN])
  /\ UNCHANGED <<root_state, clock, side_files, file_threshold, file_cache, pc, todo,
                 t1_dir, success, result, zip_result, backup_path, temp_backup_path,
                 backup_result, status, fs0, io_failed, env_fault>>
  /\ UNCHANGED ScanFrame
  /\ UNCHANGED <<cli, run>>

\* lines 103-105, 245-248: the scan of count_files raises; nothing is cached,
\* the handler of the loop body marks the run failed and the loop goes on
CountFilesRaise ==
  /\ pc = "count"
  /\ t1_dir \notin DOMAIN file_cache
  /\ pc' = "loop"
  /\ success' = FALSE
  /\ status' = SetStatus(t1_dir, "ScanFailed")
  /\ io_failed' = io_failed \cup {t1_dir}
  /\ env_fault' = env_fault \cup {t1_dir}
  /\ UNCHANGED <<fs, root_state, clock, side_files, file_threshold, file_cache, todo,
                 t1_dir, result, zip_result, backup_path, temp_backup_path,
                 backup_result, fs0>>
  /\ UNCHANGED ScanFrame
  /\ UNCHANGED <<cli, run>>

\* usable roots without a backup root; two directories hold the file f only
InitCache ==
  /\ Init
  /\ root_state = "ok"
  /\ ~Exists(fs, backup_dir)
  /\ Cardinality(Children(fs, input_dir)) > 1 =>
       \A q \in DOMAIN fs : fs[q].kind = "file" => Last(q) = <<"f">>

NextCache ==
  \/ Next
  \/ ExternalChange
  \/ CountFilesRaise

SpecCache == InitCache /\ [][NextCache]_vars

\* ------------------------------------------- the pipeline is run again
\* lines 270-271 once more on the same root with the same threshold: a new
\* DirectoryCompressor (empty cache) and a new call of process_directories
\* (lines 202-204); the filesystem, the clock and the side files stay
SecondRun ==
  /\ pc = "done"
  /\ run.number = 1
  /\ \A d \in DOMAIN status : status[d] \in {"Skipped", "BackedUp"}
  /\ run' = [number |-> 2, status |-> status, result |-> result]
  /\ pc' = "start"
  /\ file_cache' = [ d \in {} |-> <<>> ]
  /\ todo' = {}
  /\ t1_dir' = NoPath
  /\ success' = TRUE
  /\ result' = "none"
  /\ zip_result' = NoZip
  /\ backup_result' = NoBackup
  /\ status' = NoStatus
  /\ fs0' = fs
  /\ io_failed' = {}
  /\ env_fault' = {}
  /\ UNCHANGED <<fs, root_state, clock, side_files, file_threshold, backup_path,
                 temp_backup_path, cli>>
  /\ UNCHANGED ScanFrame

NextRerun ==
  \/ Next
  \/ SecondRun

SpecRerun == Init /\ [][NextRerun]_vars

\* ====================================================== the properties
TimeStamps == { Strftime(c) : c \in 0..MaxClock }

BackupPcs == {"b_mkdir", "b_access", "b_move", "b_rename", "b_except"}

\* the tier-1 candidates of a filesystem
Tier1(f) == { d \in Children(f, input_dir) : IsDir(f, d) /\ ~StartsWithDot(Last(d)) }

FileCount(f, d) == Cardinality(ScanEntries(f, d))

FilesUnder(f, d) == { q \in Under(f, d) : f[q].kind = "file" }

EndsWithTmp(name) ==
  Len(name) >= 4 /\ SubSeq(name, Len(name) - 3, Len(name)) = <<".", "t", "m", "p">>

\* the archives beside directory d that carry its name
ArchivesOf(f, d) ==
  { p \in Children(f, Front(d)) : f[p].kind = "zip" /\ IsPrefix(Last(d) \o <<"_">>, Last(p)) }

\* the entries of the backup root that carry the name of directory d
BackupEntriesOf(f, d) ==
  { p \in Children(f, backup_dir) : IsPrefix(Last(d) \o <<"_">>, Last(p)) }

FinalEntriesOf(f, d) == { p \in BackupEntriesOf(f, d) : ~EndsWithTmp(Last(p)) }

\* the tree directory d had when the run started is found at path p
ContentsAt(p, d) ==
  \A r \in DOMAIN Subtree(fs0, d) : Exists(fs, p \o r) /\ fs[p \o r] = fs0[d \o r]

Untouched(d) == Subtree(fs, d) = Subtree(fs0, d)

StatusOf(d) == IF d \in DOMAIN status THEN status[d] ELSE "Pending"

\* C1: backup_directory runs for a tier-1 directory only while the latest
\* compress_directory of that directory returned success with an archive that
\* is on disk, and a directory whose tree is no longer as the run found it has
\* a finished archive beside its original place.
C1_BackupOnlyAfterArchive ==
  /\ pc \in BackupPcs =>
       /\ zip_result.ok
       /\ zip_result.zip_path \in { ZipPath(t1_dir, ts) : ts \in TimeStamps }
       /\ Exists(fs, zip_result.zip_path)
       /\ fs[zip_result.zip_path].closed
  /\ \A d \in Tier1(fs0) :
       ~Untouched(d) => \E z \in ArchivesOf(fs, d) : fs[z].closed

C1_Witness == pc = "b_rename" /\ ~Exists(fs, t1_dir) /\ Exists(fs, temp_backup_path)

NoFailure(d) ==
  /\ d \notin io_failed
  /\ \A q \in FilesUnder(fs0, d) : fs0[q].readable /\ Walkable(fs0, d, q)

\* C4: after a run, a tier-1 directory with more files than the threshold and
\* no failed file or filesystem call has a finished archive beside it with
\* exactly one entry per original file, named by the file's path relative to
\* the directory's parent; it is gone from its original path and its tree is
\* found under the backup root.
C4_ArchivedAndRelocated ==
  (pc = "done" /\ root_state = "ok") =>
    \A d \in Tier1(fs0) :
      (FileCount(fs0, d) > file_threshold /\ NoFailure(d)) =>
        /\ \E z \in ArchivesOf(fs, d) :
             /\ fs[z].closed
             /\ fs[z].entries =
                  { [archive_path |-> SubSeq(q, Len(Front(d)) + 1, Len(q)),
                     data |-> fs0[q].data] : q \in FilesUnder(fs0, d) }
        /\ ~Exists(fs, d)
        /\ \E p \in Under(fs, backup_dir) : Subtree(fs, p) = Subtree(fs0, d)

C4_Witness ==
  /\ pc = "done"
  /\ result = "True"
  /\ \E d \in Tier1(fs0) :
       /\ FileCount(fs0, d) > file_threshold
       /\ NoFailure(d)
       /\ Cardinality(FilesUnder(fs0, d)) = 2

\* C5: when compress_directory returns, either it reports success and the
\* finished archive is on disk at the returned path, or it reports failure,
\* returns no path, and nothing is left at the path the attempt wrote to.
C5_ArchiveAllOrNothing ==
  [][ (pc = "compress" /\ pc' # "compress") =>
        LET attempt == ZipPath(t1_dir, Strftime(clock))
        IN IF zip_result'.ok
           THEN /\ zip_result'.zip_path = attempt
                /\ Exists(fs', attempt)
                /\ fs'[attempt].kind = "zip"
                /\ fs'[attempt].closed
           ELSE /\ zip_result'.zip_path = NoPath
                /\ ~Exists(fs', attempt) ]_vars

C5_Witness ==
  /\ pc = "loop"
  /\ StatusOf(t1_dir) = "CompressFailed"
  /\ ~zip_result.ok
  /\ ArchivesOf(fs, t1_dir) = {}

\* C6: a directory whose compress_directory failed keeps its tree where it
\* was, none of its files is found anywhere else, no entry carrying its name
\* is added to the backup root, backup_directory is not running for it, and a
\* finished run returns failure.
C6_FailedArchiveLeavesDirectory ==
  \A d \in DOMAIN status :
    status[d] = "CompressFailed" =>
      /\ Untouched(d)
      /\ \A p \in DOMAIN fs :
           (fs[p].kind = "file" /\ IsPrefix(d, fs[p].data)) => IsPrefix(d, p)
      /\ BackupEntriesOf(fs, d) \subseteq BackupEntriesOf(fs0, d)
      /\ ~(pc \in BackupPcs /\ t1_dir = d)
      /\ pc = "done" => result = "False"

C6_Witness ==
  /\ pc = "done"
  /\ \E d \in DOMAIN status : status[d] = "CompressFailed" /\ FileCount(fs0, d) = 2

Terminal == {"Skipped", "BackedUp", "CompressFailed", "BackupFailed"}

\* C7: a finished run over an accessible input root returns success exactly
\* when every tier-1 directory with more files than the threshold reached
\* BackedUp; directories at or below the threshold play no part.
C7_SuccessIffAllBackedUp ==
  (pc = "done" /\ root_state = "ok") =>
    (result = "True" <=>
       \A d \in Tier1(fs0) :
         FileCount(fs0, d) > file_threshold => StatusOf(d) = "BackedUp")

C7_Witness ==
  /\ pc = "done"
  /\ result = "True"
  /\ \E d, e \in Tier1(fs0) : StatusOf(d) = "Skipped" /\ StatusOf(e) = "BackedUp"

\* C8: when the run over an accessible input root returns, every tier-1
\* directory the root held has a terminal status, whatever failed for the
\* others.
C8_EveryDirectoryProcessed ==
  (pc = "done" /\ root_state = "ok") =>
    \A d \in Tier1(fs0) : StatusOf(d) \in Terminal

C8_Witness ==
  /\ pc = "done"
  /\ \E d, e \in Tier1(fs0) :
       /\ StatusOf(d) \in {"CompressFailed", "BackupFailed"}
       /\ StatusOf(e) = "BackedUp"

\* the places the relocation of directory d names: its original path, its
\* temporary names and its final names under the backup root
KnownPlaces(d) ==
  {d} \cup { BackupPath(d, ts) : ts \in TimeStamps }
      \cup { TempBackupPath(BackupPath(d, ts)) : ts \in TimeStamps }

\* C2: in every state of a run, whatever steps of backup_directory failed, the
\* tree of each tier-1 directory is found at its original path, at its
\* temporary name under the backup root or at its final backup path.
C2_ContentsAtKnownPlace ==
  \A d \in Tier1(fs0) : \E p \in KnownPlaces(d) : ContentsAt(p, d)

\* C9 as stated: the destination is the bare base name under the backup root
\* unless an entry of that name exists there, and carries the timestamp
\* suffix only then.
C9_BareNameUnlessCollision ==
  backup_path # NoPath =>
    backup_path =
      IF Exists(fs, backup_dir \o <<Last(t1_dir)>>)
      THEN backup_dir \o <<Last(t1_dir) \o <<"_">> \o Strftime(clock)>>
      ELSE backup_dir \o <<Last(t1_dir)>>

\* C9 amended: the destination is always <backup root>/<name>_<timestamp>,
\* whether or not the backup root holds an entry carrying the name
C9_AlwaysTimestamped ==
  backup_path # NoPath =>
    /\ Front(backup_path) = <<BackupsName>>
    /\ \E c \in 0..clock :
         /\ Len(Strftime(c)) = 15
         /\ Last(backup_path) = Last(t1_dir) \o <<"_">> \o Strftime(c)

C9_Witness ==
  /\ pc = "b_access"
  /\ backup_path # NoPath
  /\ Children(fs, backup_dir) = {}

\* C10: a relocation that ran without an environment fault, for a directory
\* of which the backup root already held an entry, leaves every earlier entry
\* as it was and adds a new entry of its own.
C10_SecondDistinctEntry ==
  \A d \in Tier1(fs0) :
    ( /\ StatusOf(d) \in {"BackedUp", "BackupFailed"}
      /\ FinalEntriesOf(fs0, d) # {}
      /\ d \notin env_fault ) =>
        /\ \A e \in FinalEntriesOf(fs0, d) : Subtree(fs, e) = Subtree(fs0, e)
        /\ FinalEntriesOf(fs, d) \ FinalEntriesOf(fs0, d) # {}

\* the children of the input root that are no tier-1 candidates
Reserved(f) ==
  { p \in Children(f, input_dir) : ~IsDir(f, p) \/ StartsWithDot(Last(p)) }

\* the archives the run has written so far
NewArchives ==
  { z \in DOMAIN fs : fs[z].kind = "zip" /\ (z \in DOMAIN fs0 => fs[z] # fs0[z]) }

\* C11: the backup root, dot-named entries and non-directory children of the
\* input root are never the loop's directory, never scanned into the cache,
\* never given a status; no archive and no backup entry carries their name,
\* the directories among them stay where they were, and no archive of the run
\* holds a file of theirs.
C11_ReservedNeverCandidates ==
  /\ t1_dir # NoPath => t1_dir \notin Reserved(fs0)
  /\ DOMAIN file_cache \cap Reserved(fs0) = {}
  /\ DOMAIN status \cap Reserved(fs0) = {}
  /\ \A p \in Reserved(fs0) :
       /\ IsDir(fs0, p) => IsDir(fs, p)
       /\ ArchivesOf(fs, p) = {}
       /\ BackupEntriesOf(fs, p) = {}
  /\ \A z \in NewArchives : \A e \in fs[z].entries :
       \E d \in Children(fs0, input_dir) \ Reserved(fs0) : IsPrefix(d, e.data)

C11_Witness ==
  /\ pc = "done"
  /\ backup_dir \in Reserved(fs0)
  /\ \E p \in Reserved(fs0) : fs0[p].kind = "zip"
  /\ \E d \in DOMAIN status : status[d] = "BackedUp"

\* C12: a tier-1 directory that cannot be traversed is not cached as scanned
\* and not skipped as below the threshold; it is neither archived nor
\* relocated, and the finished run returns failure.
C12_UntraversableIsFailure ==
  \A d \in Tier1(fs0) :
    ~fs0[d].trav =>
      /\ d \notin DOMAIN file_cache
      /\ StatusOf(d) # "Skipped"
      /\ Untouched(d)
      /\ ArchivesOf(fs, d) \subseteq ArchivesOf(fs0, d)
      /\ (pc = "done" /\ root_state = "ok") => result = "False"

Archived == {"Compressed", "BackingUp", "BackedUp", "BackupFailed"}

\* the source paths the failed_files_<timestamp>.log files list
Reported == UNION { Range(sf.lines) : sf \in side_files }

\* C13: once compress_directory has succeeded for a directory, each of its
\* files that is not readable is absent from the archive and its source path
\* is listed in a failed_files_<timestamp>.log side file.
C13_UnreadableReported ==
  \A d \in DOMAIN status :
    status[d] \in Archived =>
      \A q \in FilesUnder(fs0, d) :
        ~fs0[q].readable =>
          /\ \A z \in ArchivesOf(fs, d) \cap NewArchives :
               \A e \in fs[z].entries : e.data # q
          /\ q \in Reported

\* C14: when compress_directory returns for a call in which the archive is
\* opened and closed and the side file can be written, and the write of at
\* least one entry fails: it returns success with the finished archive on
\* disk holding exactly the entries whose write did not fail, the side file
\* named after the call's timestamp lists every failed source path, and the
\* controller goes on to backup_directory.
C14_EntryFailuresTolerated ==
  [][ (pc = "compress" /\ pc' # "compress") =>
        /\ \A files \in ScanDirectory(file_cache, fs, t1_dir) :
           \A outcome \in [1..Len(files) -> EntryOutcomes] :
             LET ts == Strftime(clock)
                 r == CompressDirectory(fs, files, t1_dir, ts, TRUE, outcome, TRUE, TRUE)
                 bad == { i \in 1..Len(files) : outcome[i] = "open_fail" }
                 failed == { files[i].source_path : i \in bad }
                 written == { [archive_path |-> files[i].archive_path,
                               data |-> fs[files[i].source_path].data] :
                              i \in (1..Len(files)) \ bad }
             IN bad # {} =>
                  /\ r.ok
                  /\ r.zip_path = ZipPath(t1_dir, ts)
                  /\ r.fs[r.zip_path].closed
                  /\ r.fs[r.zip_path].entries = written
                  /\ \E sf \in r.side : sf.timestamp = ts /\ failed \subseteq Range(sf.lines)
        /\ zip_result'.ok =>
             /\ pc' = "b_mkdir"
             /\ fs'[zip_result'.zip_path].closed
             /\ t1_dir \in io_failed' =>
                  \E sf \in side_files' : sf.timestamp = Strftime(clock) /\ sf.lines # <<>> ]_vars

C14_Witness ==
  /\ pc = "b_mkdir"
  /\ zip_result.ok
  /\ t1_dir \in io_failed
  /\ fs[zip_result.zip_path].entries # {}
  /\ \E sf \in side_files : Len(sf.lines) = 1

Inside == {"check", "walk", "store", "except"}

ReturnedList(t) == threads[t].pc = "done" /\ threads[t].outcome = "list"

ScanSerialized ==
  /\ \A t, u \in Threads :
       (threads[t].pc \in Inside /\ threads[u].pc \in Inside) => t = u
  /\ cache_lock = { t \in Threads : threads[t].pc \in Inside }
  /\ \A d \in DOMAIN walks : walks[d] <= 1
  /\ \A t \in Threads :
       threads[t].pc = "walk" => threads[t].directory \notin DOMAIN file_cache
  /\ \A t, u \in Threads :
       (ReturnedList(t) /\ ReturnedList(u) /\ threads[t].directory = threads[u].directory)
         => threads[t].returned = threads[u].returned

\* C15: concurrent callers of _scan_directory hold the lock one at a time; for
\* each directory at most one traversal runs to its end and none starts once
\* the directory is cached; all callers that get a list for a directory get
\* the same list; the lock is held only by a thread inside the call, and
\* every caller that waits for the lock returns or raises in the end.
C15_ScanSerialized ==
  /\ []ScanSerialized
  /\ \A t \in Threads : (threads[t].pc = "acquire") ~> (threads[t].pc = "done")

C15_Witness ==
  /\ cache_lock = {}
  /\ \E t, u, v \in Threads :
       /\ t # u
       /\ threads[v].pc = "done" /\ threads[v].outcome = "error"
       /\ ReturnedList(t) /\ ReturnedList(u)
       /\ threads[t].directory = threads[u].directory
       /\ threads[v].directory = threads[t].directory
       /\ Len(threads[t].returned) = 2

\* whether every directory with more files than the threshold reached BackedUp
FullSuccess ==
  /\ root_state = "ok"
  /\ \A d \in Tier1(fs0) : FileCount(fs0, d) > file_threshold => StatusOf(d) = "BackedUp"

PositiveInteger(arg) == arg.kind = "absent" \/ (arg.kind = "int" /\ arg.value > 0)

\* C16: when the compress invocation has exited, its code is 0 if the
\* threshold is a positive integer, the input root is accessible and every
\* triggered directory reached BackedUp, and 1 otherwise; with a threshold
\* that is not a positive integer no directory was processed.
C16_ExitCode ==
  pc = "exited" =>
    /\ cli.exit_code = IF PositiveInteger(cli.arg) /\ FullSuccess THEN 0 ELSE 1
    /\ ~PositiveInteger(cli.arg) => (status = << >> /\ file_cache = << >> /\ fs = fs0)

\* C17: with an input root that is missing or lacks read/write access,
\* process_directories goes from its start straight to returning failure:
\* no directory becomes the loop's directory, nothing is scanned into the
\* cache, no archive or side file is written, and the filesystem, the backup
\* root included, stays as it was.
C17_RootFailureAborts ==
  root_state # "ok" =>
    /\ pc \in {"start", "done"}
    /\ pc = "done" => result = "False"
    /\ t1_dir = NoPath
    /\ file_cache = << >>
    /\ status = << >>
    /\ side_files = {}
    /\ fs = fs0
    /\ IsDir(fs, backup_dir) <=> IsDir(fs0, backup_dir)

C17_Witness ==
  /\ pc = "done"
  /\ root_state = "denied"
  /\ ~Exists(fs, backup_dir)
  /\ \E d \in Tier1(fs0) : FileCount(fs0, d) > file_threshold

\* C18: a source path is listed as failed only if its entry did not get into
\* the archive: no path of a failed_files_<timestamp>.log is the source of an
\* entry of an archive the run wrote, and a directory for which no call
\* failed has no path listed.
C18_FailedOnlyIfWriteFailed ==
  /\ \A q \in Reported : \A z \in NewArchives : \A e \in fs[z].entries : e.data # q
  /\ \A d \in Tier1(fs0) : d \notin io_failed => \A q \in Reported : ~IsPrefix(d, q)

\* C19: when the handler of backup_directory runs with the directory at its
\* temporary name, the call returns failure and either the directory is back
\* at its original path as the run found it and the temporary entry is gone,
\* or the temporary entry is left as it was and what the caller receives
\* differs from the result of an ordinary failure.
C19_RestoredOrDistinct ==
  [][ ( /\ pc = "b_except"
        /\ temp_backup_path # NoPath
        /\ Exists(fs, temp_backup_path)
        /\ ~Exists(fs, t1_dir)
        /\ pc' # "b_except" ) =>
        /\ ~backup_result'.ok
        /\ IF Exists(fs', t1_dir)
           THEN /\ Subtree(fs', t1_dir) = Subtree(fs0, t1_dir)
                /\ ~Exists(fs', temp_backup_path)
           ELSE /\ fs' = fs
                /\ backup_result' # NoBackup ]_vars

\* C20: backup_directory returns success only from the step in which the
\* rename to the final name succeeded, and when it does, the tree the run
\* found at the directory's path is at the returned backup path, nothing is
\* left at the original path and nothing at the temporary name.
C20_SuccessMeansRelocated ==
  [][ (backup_result'.ok /\ backup_result' # backup_result) =>
        /\ pc = "b_rename"
        /\ backup_result'.backup_path = backup_path
        /\ fs' = OsRename(fs, temp_backup_path, backup_path).fs
        /\ OsRename(fs, temp_backup_path, backup_path).ok
        /\ Subtree(fs', backup_path) = Subtree(fs0, t1_dir)
        /\ ~Exists(fs', t1_dir)
        /\ ~Exists(fs', temp_backup_path) ]_vars

\* the archive paths and the source paths of a list of entries
ArchivePaths(files) == { files[i].archive_path : i \in 1..Len(files) }

\* C21: a cached scan result is never replaced; the threshold decision is
\* made on the length of the cached list; the archive compress_directory
\* finishes holds entries of that list only, and every entry of it is in the
\* archive or in the side file, whatever the filesystem holds by then; a scan
\* that raised leaves no cache entry
C21_CacheNeverRecomputed ==
  [][ /\ \A d \in DOMAIN file_cache :
           d \in DOMAIN file_cache' /\ file_cache'[d] = file_cache[d]
      /\ (pc = "count" /\ pc' # "count") =>
           \/ /\ status'[t1_dir] = "ScanFailed"
              /\ t1_dir \notin DOMAIN file_cache'
           \/ /\ t1_dir \in DOMAIN file_cache'
              /\ status'[t1_dir] # "ScanFailed"
              /\ (pc' = "compress") =
                   (CountFilesResult(file_cache'[t1_dir]).file_count > file_threshold)
      /\ (pc = "compress" /\ pc' = "b_mkdir") =>
           LET files == file_cache[t1_dir]
               z == fs'[zip_result'.zip_path]
               lines == UNION { Range(sf.lines) : sf \in side_files' }
           IN /\ { e.archive_path : e \in z.entries } \subseteq ArchivePaths(files)
              /\ \A i \in 1..Len(files) :
                   \/ \E e \in z.entries : e.archive_path = files[i].archive_path
                   \/ files[i].source_path \in lines
    ]_vars

\* the archive was built from the cached list after another process had
\* created a file in the directory and removed one the list names
C21_Witness ==
  /\ pc = "b_mkdir"
  /\ Exists(fs, t1_dir \o FileN)
  /\ Len(file_cache[t1_dir]) = 2
  /\ \E i \in 1..2 : ~Exists(fs, file_cache[t1_dir][i].source_path)
  /\ Cardinality(fs[zip_result.zip_path].entries) = 1

\* a raised scan left no cache entry and a later directory was cached
C21_WitnessRaised ==
  /\ \E d \in DOMAIN status : status[d] = "ScanFailed" /\ d \notin DOMAIN file_cache
  /\ DOMAIN file_cache # {}

\* how far the handling of a directory has come
Rank(s) ==
  CASE s = "Pending" -> 0
    [] s = "Compressing" -> 1
    [] s = "Compressed" -> 2
    [] s = "BackingUp" -> 3
    [] OTHER -> 4

Failed == {"ScanFailed", "CompressFailed", "BackupFailed"}

PcRank(p) ==
  CASE p = "b_mkdir" -> 1
    [] p = "b_access" -> 2
    [] p = "b_move" -> 3
    [] p = "b_rename" -> 4
    [] p = "b_except" -> 5
    [] OTHER -> 0

\* C22: no operation is retried. The handling of a directory only moves
\* forward and an end status is never left; the scan is made for a directory
\* not handled before, the archive build for one that was just triggered, the
\* relocation for one that was just archived, the steps of the relocation come
\* in order with the move to the temporary name made once; a directory turns
\* failed in one step, which marks the run failed, and stays failed
C22_NoRetry ==
  [][ /\ \A d \in DOMAIN status :
           /\ d \in DOMAIN status'
           /\ Rank(status'[d]) >= Rank(status[d])
           /\ Rank(status[d]) = 4 => status'[d] = status[d]
      /\ (pc # "count" /\ pc' = "count") => t1_dir' \notin DOMAIN status
      /\ (pc = "count" /\ pc' # "count") =>
           /\ t1_dir \notin DOMAIN status
           /\ status'[t1_dir] \in {"Skipped", "Compressing", "ScanFailed"}
      /\ (pc = "compress" /\ pc' # "compress") =>
           /\ StatusOf(t1_dir) = "Compressing"
           /\ status'[t1_dir] \in {"Compressed", "CompressFailed"}
      /\ (pc = "b_mkdir" /\ pc' # "b_mkdir") =>
           /\ StatusOf(t1_dir) = "Compressed"
           /\ status'[t1_dir] = "BackingUp"
      /\ (pc \in BackupPcs /\ pc' # pc) =>
           \/ pc' \in BackupPcs /\ PcRank(pc') > PcRank(pc)
           \/ pc' = "loop" /\ status'[t1_dir] \in {"BackedUp", "BackupFailed"}
      /\ \A d \in DOMAIN status' :
           (status'[d] \in Failed /\ StatusOf(d) \notin Failed) =>
              /\ d = t1_dir
              /\ ~success'
              /\ pc' = "loop"
    ]_vars

\* a run ended after one directory failed in the archive build and another in
\* the relocation
C22_Witness ==
  /\ pc = "done"
  /\ result = "False"
  /\ \E d, e \in DOMAIN status :
       status[d] = "CompressFailed" /\ status[e] = "BackupFailed"

\* the final target names a run may compute for the tier-1 directories
FinalNames == { BackupPath(d, ts) : d \in Tier1(fs0), ts \in TimeStamps }

\* distinct final target names have distinct temporary names
TempNamesDiffer ==
  \A p, q \in FinalNames : p # q => TempBackupPath(p) # TempBackupPath(q)

\* when the move of line 184 is about to run, nothing is at the temporary
\* name, which is not the final name either
MoveTargetFree ==
  pc = "b_move" =>
    /\ temp_backup_path # backup_path
    /\ ~Exists(fs, temp_backup_path)

\* C23: the temporary name is unique to the relocation: distinct final target
\* names have distinct temporary names, and the temporary name is neither the
\* final name nor the name of an entry another relocation left under the
\* backup root, so the move never lands inside or on top of other data
C23_TempNameUnique == TempNamesDiffer /\ MoveTargetFree

\* the first run ended with every directory it triggered relocated
FirstRunAllBackedUp ==
  /\ run.number = 2
  /\ \A d \in DOMAIN run.status : run.status[d] \in {"Skipped", "BackedUp"}

\* the second run so far: no directory triggered, the filesystem as the first
\* run left it, and success returned at the end
NoOp ==
  /\ \A d \in DOMAIN status : status[d] = "Skipped"
  /\ fs = fs0
  /\ pc = "done" => result = "True"

\* C24 as stated: a second run after a run in which every triggered directory
\* reached BackedUp triggers nothing, changes nothing and returns success
C24_SecondRunNoOp_AsStated == FirstRunAllBackedUp => NoOp

\* C24: a second run after a run that returned success (the root was usable
\* and every triggered directory reached BackedUp) triggers no directory,
\* leaves the filesystem with all archives and backup entries as it was, and
\* returns success
C24_SecondRunNoOp ==
  (FirstRunAllBackedUp /\ run.result = "True") => NoOp

\* the second run ended after a first run that archived and relocated a
\* directory and passed over another
C24_Witness ==
  /\ run.number = 2
  /\ run.result = "True"
  /\ \E d, e \in DOMAIN run.status :
       run.status[d] = "BackedUp" /\ run.status[e] = "Skipped"
  /\ pc = "done"
  /\ \E e \in DOMAIN status : status[e] = "Skipped"

====
